---- MODULE Spec2Model ----
(***************************************************************************)
(* A model of the voxel-space renderer: raycast (renderer.py), the sky     *)
(* colour model (BackgroundConfig / RendererSettings), Player.update       *)
(* (player.py), and load_map and the game loop (main.py).                  *)
(*                                                                         *)
(* Floats are modelled as exact rationals.  Positions and the values of    *)
(* math.sin / math.cos are fixed-point numbers with scale Q; angles are    *)
(* integer multiples of pi/16, so sin and cos are a table.  A colour is a  *)
(* triple of channels, a float colour a triple of numerators over one      *)
(* denominator.  int(float) is truncation towards zero (TruncDiv).         *)
(***************************************************************************)
EXTENDS Integers, Sequences, FiniteSets, TLC

\* ---------------------------------------------------------------- bounds
ScreenW == 2
ScreenH == 4
RayDistance == 4
MapW == 2
MapH == 2
MaxFade == 3
MaxFrames == 2

\* ------------------------------------------------------- float modelling
\* the fixed-point scale of positions and of the values of sin and cos
Q == 1000

\* cos(k * pi/16) * Q for k = 0 .. 8

QuarterCos == <<1000, 981, 924, 831, 707, 556, 383, 195, 0>>

Cos(a) ==
  LET k == a % 32
  IN  IF k <= 8 THEN QuarterCos[k + 1]
      ELSE IF k <= 16 THEN -QuarterCos[17 - k]
      ELSE IF k <= 24 THEN -QuarterCos[k - 15]
      ELSE QuarterCos[33 - k]

Sin(a) == Cos(a - 8)

Abs(n) == IF n < 0 THEN -n ELSE n

Min(a, b) == IF a < b THEN a ELSE b

Max(a, b) == IF a > b THEN a ELSE b

\* int(n / d) for a float n / d: the fraction is dropped, towards zero
TruncDiv(n, d) ==
  IF (n < 0) # (d < 0) THEN -(Abs(n) \div Abs(d)) ELSE Abs(n) \div Abs(d)

\* numpy.clip(v, lo, hi) = minimum(maximum(v, lo), hi)
Clip(v, lo, hi) == Min(Max(v, lo), hi)

Cols == 0 .. ScreenW - 1
Rows == 0 .. ScreenH - 1

\* ------------------------------------------------------------ the state
VARIABLES
  pos, angle, height, pitch,            \* Player
  scale_height, fading_size,            \* RendererSettings
  heightmap, colormap, bgcfg,
  background_color,                     \* raycast's arguments and locals
  screen_data, y_buffer, ray_index, ray_angle, depth,
  contacted, max_vertical_position, delta,
  pc,                                   \* position in the running code
  reads, paints, fades,                 \* what raycast read and wrote
  snapshot, frame, display,             \* the game loop
  sky_color,                            \* get_background_color's result
  load_in, load_out                     \* load_map's arguments and result

vars == <<pos, angle, height, pitch, scale_height, fading_size, heightmap,
          colormap, bgcfg, background_color, screen_data, y_buffer,
          ray_index, ray_angle, depth, contacted, max_vertical_position,
          delta, pc, reads, paints, fades, snapshot, frame, display,
          sky_color, load_in, load_out>>

player == <<pos, angle, height, pitch>>
settings == <<scale_height, fading_size, heightmap, colormap, bgcfg>>
locals == <<background_color, screen_data, y_buffer, ray_index, ray_angle,
            depth, contacted, max_vertical_position, delta>>
logs == <<reads, paints, fades>>
loader == <<load_in, load_out>>

\* ----------------------------------------------------- Player (player.py)
velocity == 4
\* one step of the angle table (the source turns by pi/240 a frame)
angle_velocity == 1
minimum_height == 250
maximum_height == 750

Keys == [w : BOOLEAN, s : BOOLEAN, a : BOOLEAN, d : BOOLEAN]

\* handle_input: the height after the W and S keys
InputHeight(h, k) ==
  LET h1 == IF k.w THEN h - velocity ELSE h
  IN  IF k.s THEN h1 + velocity ELSE h1

\* handle_input: the angle after the A and D keys
InputAngle(a, k) ==
  LET a1 == IF k.a THEN a - angle_velocity ELSE a
  IN  IF k.d THEN a1 + angle_velocity ELSE a1

\* the height left as handle_input made it
LimitHeightUnclipped(h) == h

\* "Limit possible player height"
LimitHeight(h) == Clip(h, minimum_height, maximum_height)

\* the rotated velocity vector added to pos: normalized = [0, velocity],
\* theta = angle - pi/2
Move(p, a) ==
  LET theta == a - 8
  IN  <<p[1] + (0 * Cos(theta) - velocity * Sin(theta)),
        p[2] + (0 * Sin(theta) + velocity * Cos(theta))>>

\* ------------------------------------------- sky colour model (renderer.py)
NoConfig ==
  [built |-> FALSE, min_height |-> 0, max_height |-> 0,
   min_color |-> <<0, 0, 0>>, max_color |-> <<0, 0, 0>>]

\* BackgroundConfig.__init__ stores its arguments; it checks nothing
BackgroundConfig(min_height, max_height, min_color, max_color) ==
  [built |-> TRUE, min_height |-> min_height, max_height |-> max_height,
   min_color |-> min_color, max_color |-> max_color]

NoColor == [nan |-> FALSE, num |-> <<0, 0, 0>>, den |-> 1]

\* coeff = (clamped - min) / (max - min), result = (max_c - min_c) * coeff + min_c
\* as numerators over den = max - min; a zero range divides by zero (numpy
\* scalars: nan or inf, no exception)
get_background_color(config, h) ==
  LET clamped == Clip(h, config.min_height, config.max_height)
      range == config.max_height - config.min_height
  IN  IF range = 0
      THEN [nan |-> TRUE, num |-> <<0, 0, 0>>, den |-> 0]
      ELSE [nan |-> FALSE,
            num |-> [i \in 1 .. 3 |->
                       (config.max_color[i] - config.min_color[i])
                         * (clamped - config.min_height)
                       + config.min_color[i] * range],
            den |-> range]

\* a float colour stored into the integer frame buffer
ToInt(c) == [i \in 1 .. 3 |-> TruncDiv(c.num[i], c.den)]

\* ------------------------------------------------------ raycast (renderer.py)
fov_x == 2 * ScreenW
delta_angle == fov_x \div ScreenW

\* the float coordinates of the sample, scaled by Q
FloatX(p, d, ra) == p[1] + d * Cos(ra)
FloatY(p, d, ra) == p[2] + d * Sin(ra)

\* x = int(player_pos[0] + depth * cos_a)
SampleX(p, d, ra) == TruncDiv(FloatX(p, d, ra), Q)

\* y = int(player_pos[1] + depth * sin_a) % map_height
SampleY(p, d, ra) == TruncDiv(FloatY(p, d, ra), Q) % MapH

\* curvature = (depth / ray_distance) ** 2 * 500
\* corrected_height = heightmap[x, y][0] - curvature
\* depth *= cos(player_angle - ray_angle)
\* int((player_height - corrected_height) / depth * scale_height * tan_of_pitch)
\* as one exact quotient; fov_x is below pi, so cos(player_angle - ray_angle) > 0
HeightOnScreen(hm, d) ==
  TruncDiv(((height - hm) * RayDistance * RayDistance + 500 * d * d)
             * scale_height[1] * Sin(pitch),
           RayDistance * RayDistance * d * Cos(angle - ray_angle)
             * scale_height[2])

\* the first projected row taken as it is
FirstContactUnclamped(h) == h

\* "fix clamping": y_buffer[ray_index] = min(height_on_screen, screen_height)
FirstContact(h) == Min(h, ScreenH)

\* "fix mirror rendering"
MirrorFix(h) == IF h < 0 THEN 0 ELSE h

\* the anchor taken from the occlusion value after the bar is painted
AnchorAfterPaint(yb, h) == h - 1

\* max_vertical_position = y_buffer[ray_index] - 1, before y_buffer is lowered
Anchor(yb, h) == yb - 1

\* the sample coordinate accumulated in place in the caller's array
PosAliasedWrite(p, fx) == <<fx, p[2]>>

\* player_pos after a depth step: raycast reads player_pos[0] and
\* player_pos[1] and assigns to neither (the array is the player's own,
\* passed by reference)
PosAfterSample(p, fx) == p

\* A frame-buffer cell is addressed without a bounds check (njit): the buffer
\* is C-contiguous, so [col, row] is the cell col * screen_height + row
FlatIndex(col, row) == col * ScreenH + row

InBuffer(col, row) == FlatIndex(col, row) \in 0 .. ScreenW * ScreenH - 1

\* screen_data[col, row] = val for every row of rs; past the buffer's end the
\* write lands outside the array
Store(sd, col, rs, val) ==
  [c \in Cols |-> [r \in Rows |->
     IF \E row \in rs : FlatIndex(col, row) = FlatIndex(c, r)
     THEN val ELSE sd[c][r]]]

Garbage == {<<0, 0, 0>>, <<255, 255, 255>>}

\* the values screen_data[col, row] can read: past the buffer's end, anything
Load(sd, col, row) ==
  IF InBuffer(col, row)
  THEN {sd[FlatIndex(col, row) \div ScreenH][FlatIndex(col, row) % ScreenH]}
  ELSE Garbage

\* the blend with its two ends exchanged
FadeColorTowardsSky(current_color, dl) ==
  [i \in 1 .. 3 |->
     TruncDiv((background_color.num[i]
                 - current_color[i] * background_color.den) * dl
                + current_color[i] * background_color.den * fading_size,
              fading_size * background_color.den)]

\* factor = delta / fading_size
\* result[i] = (current_color[i] - background_color[i]) * factor + background_color[i]
\* stored into the integer buffer
FadeColor(current_color, dl) ==
  [i \in 1 .. 3 |->
     TruncDiv((current_color[i] * background_color.den
                 - background_color.num[i]) * dl
                + background_color.num[i] * fading_size,
              fading_size * background_color.den)]

\* lines 83-98: fill the buffer, allocate y_buffer, enter the first column
RaycastBegin(bgc) ==
  /\ background_color' = bgc
  /\ screen_data' = [c \in Cols |-> [r \in Rows |-> ToInt(bgc)]]
  /\ y_buffer' = [c \in Cols |-> ScreenH]
  /\ ray_angle' = angle - fov_x \div 2
  /\ ray_index' = 0
  /\ contacted' = FALSE
  /\ max_vertical_position' = -1
  /\ depth' = 1
  /\ delta' = 0
  /\ reads' = {}
  /\ paints' = {}
  /\ fades' = {}
  /\ snapshot' = <<pos, angle, height, pitch>>
  /\ pc' = "depth"

\* one iteration of "for depth in range(1, ray_distance)"
DepthStep ==
  /\ pc = "depth"
  /\ depth < RayDistance
  /\ LET x == SampleX(pos, depth, ray_angle)
         y == SampleY(pos, depth, ray_angle)
     IN  /\ pos' = PosAfterSample(pos, FloatX(pos, depth, ray_angle))
         /\ IF x < 0 \/ x >= MapW \/ y < 0 \/ y >= MapH
            THEN UNCHANGED <<screen_data, y_buffer, contacted,
                             max_vertical_position, reads, paints>>
            ELSE LET h0 == HeightOnScreen(heightmap[x][y], depth)
                     yb == IF contacted THEN y_buffer[ray_index]
                           ELSE FirstContact(h0)
                     h == MirrorFix(h0)
                 IN  /\ reads' = reads \cup
                          {[col |-> ray_index, depth |-> depth, x |-> x, y |-> y,
                            fx |-> FloatX(pos, depth, ray_angle),
                            fy |-> FloatY(pos, depth, ray_angle)]}
                     /\ contacted' = TRUE
                     /\ IF h < yb
                        THEN /\ max_vertical_position' = Anchor(yb, h)
                             /\ screen_data' =
                                  Store(screen_data, ray_index, h .. yb - 1,
                                        colormap[x][y])
                             /\ paints' = paints \cup
                                  {[col |-> ray_index, row |-> r, depth |-> depth]
                                     : r \in h .. yb - 1}
                             /\ y_buffer' = [y_buffer EXCEPT ![ray_index] = h]
                        ELSE /\ y_buffer' = [y_buffer EXCEPT ![ray_index] = yb]
                             /\ UNCHANGED <<max_vertical_position, screen_data,
                                            paints>>
  /\ depth' = depth + 1
  /\ UNCHANGED <<angle, height, pitch, settings, background_color, ray_index,
                 ray_angle, delta, pc, fades, snapshot, frame, display,
                 sky_color, loader>>

\* "for ray_index in range(screen_width)": the next column, or return
NextColumn ==
  /\ ray_index' = ray_index + 1
  /\ contacted' = FALSE
  /\ max_vertical_position' = -1
  /\ depth' = 1
  /\ delta' = 0
  /\ pc' = IF ray_index + 1 < ScreenW THEN "depth" ELSE "done"

\* lines 136-138: the depth loop is over
ColumnEnd ==
  /\ pc = "depth"
  /\ depth >= RayDistance
  /\ ray_angle' = ray_angle + delta_angle
  /\ IF max_vertical_position < 0
     THEN NextColumn
     ELSE /\ pc' = "fade"
          /\ delta' = 0
          /\ UNCHANGED <<ray_index, contacted, max_vertical_position, depth>>
  /\ UNCHANGED <<player, settings, background_color, screen_data, y_buffer,
                 logs, snapshot, frame, display, sky_color, loader>>

\* one iteration of "for delta in range(0, fading_size)"
FadeStep ==
  /\ pc = "fade"
  /\ delta < fading_size
  /\ LET screen_y == max_vertical_position + delta
     IN  IF screen_y < 0
         THEN UNCHANGED <<screen_data, fades>>
         ELSE \E current_color \in Load(screen_data, ray_index, screen_y) :
                /\ screen_data' = Store(screen_data, ray_index, {screen_y},
                                        FadeColor(current_color, delta))
                /\ fades' = fades \cup
                     {[col |-> ray_index, row |-> screen_y, delta |-> delta,
                       current |-> current_color,
                       result |-> FadeColor(current_color, delta)]}
  /\ delta' = delta + 1
  /\ UNCHANGED <<player, settings, background_color, y_buffer, ray_index,
                 ray_angle, depth, contacted, max_vertical_position, pc,
                 reads, paints, snapshot, frame, display, sky_color, loader>>

\* the fading loop is over
FadeEnd ==
  /\ pc = "fade"
  /\ delta >= fading_size
  /\ NextColumn
  /\ UNCHANGED <<player, settings, background_color, screen_data, y_buffer,
                 ray_angle, logs, snapshot, frame, display, sky_color, loader>>

\* ------------------------------------------------------ inputs of raycast
Positions == {<<500, 500>>, <<1500, 1500>>, <<-300, 200>>}
Angles == {0, 4, 14, 24}
Heights == {0, 250, 400}
Pitches == {4, 8, 28}
Scales == {<<1, 100>>, <<1, 25>>}
HeightValues == {0, 200, 255}
Palette == <<(<<200, 40, 0>>), (<<20, 180, 60>>), (<<90, 90, 90>>)>>

HeightMaps ==
  {[x \in 0 .. MapW - 1 |-> [y \in 0 .. MapH - 1 |->
      IF (x + y) % 2 = 0 THEN a ELSE b]] : a \in HeightValues, b \in HeightValues}

ColorMaps ==
  {[x \in 0 .. MapW - 1 |-> [y \in 0 .. MapH - 1 |->
      Palette[((x + 2 * y + k) % 3) + 1]]] : k \in 0 .. 1}

SkyInputs ==
  {[nan |-> FALSE, num |-> <<75, 165, 210>>, den |-> 1],
   [nan |-> FALSE, num |-> <<127, 301, 401>>, den |-> 2]}

Idle ==
  /\ background_color = NoColor
  /\ screen_data = [c \in Cols |-> [r \in Rows |-> <<0, 0, 0>>]]
  /\ y_buffer = [c \in Cols |-> ScreenH]
  /\ ray_index = 0
  /\ ray_angle = 0
  /\ depth = 1
  /\ contacted = FALSE
  /\ max_vertical_position = -1
  /\ delta = 0
  /\ reads = {}
  /\ paints = {}
  /\ fades = {}
  /\ snapshot = <<pos, angle, height, pitch>>
  /\ frame = 0
  /\ display = screen_data
  /\ sky_color = NoColor
  /\ load_in = <<FALSE, FALSE, <<0, 0>>, <<0, 0>>>>
  /\ load_out = "none"

\* one call of raycast with any camera, map and settings
Init ==
  /\ pos \in Positions
  /\ angle \in Angles
  /\ height \in Heights
  /\ pitch \in Pitches
  /\ scale_height \in Scales
  /\ fading_size \in 1 .. MaxFade
  /\ heightmap \in HeightMaps
  /\ colormap \in ColorMaps
  /\ bgcfg = NoConfig
  /\ pc = "call"
  /\ Idle

RaycastCall ==
  /\ pc = "call"
  /\ \E bgc \in SkyInputs : RaycastBegin(bgc)
  /\ UNCHANGED <<player, settings, frame, display, sky_color, loader>>

Next == RaycastCall \/ DepthStep \/ ColumnEnd \/ FadeStep \/ FadeEnd

Spec == Init /\ [][Next]_vars

\* -------------------------------------------------- the game loop (main.py)
color_near_terrain == <<75, 165, 210>>
high_color == <<38, 95, 160>>

StartPositions == {<<-5100, -5100>>, <<-2300, -2300>>}
StartHeights == {252, 400, 748}

\* Game.__init__: the player, the sky model from the player's height limits,
\* the settings and the renderer
InitGame ==
  /\ pos \in StartPositions
  /\ angle = 4
  /\ height \in StartHeights
  /\ pitch = 4
  /\ scale_height = <<1, 100>>
  /\ fading_size = MaxFade
  /\ heightmap \in {m \in HeightMaps : m[0][0] = 0}
  /\ colormap \in {m \in ColorMaps : m[0][0] = Palette[1]}
  /\ bgcfg = BackgroundConfig(minimum_height, maximum_height,
                              color_near_terrain, high_color)
  /\ pc = "player"
  /\ Idle

\* Player.update, the first call of Game.update
PlayerUpdate ==
  /\ pc = "player"
  /\ frame < MaxFrames
  /\ \E k \in Keys :
       /\ height' = LimitHeight(InputHeight(height, k))
       /\ angle' = InputAngle(angle, k)
       /\ pos' = Move(pos, InputAngle(angle, k))
  /\ pc' = "renderer"
  /\ UNCHANGED <<pitch, settings, locals, logs, snapshot, frame, display,
                 sky_color, loader>>

\* Renderer.update, the second call of Game.update: the sky colour from the
\* player's height, then raycast
RendererUpdate ==
  /\ pc = "renderer"
  /\ sky_color' = get_background_color(bgcfg, height)
  /\ RaycastBegin(get_background_color(bgcfg, height))
  /\ UNCHANGED <<player, settings, frame, display, loader>>

\* Game.render, once raycast has returned: the buffer goes to the display
GameRender ==
  /\ pc = "done"
  /\ display' = screen_data
  /\ frame' = frame + 1
  /\ pc' = "player"
  /\ UNCHANGED <<player, settings, locals, logs, snapshot, sky_color, loader>>

NextGame ==
  PlayerUpdate \/ RendererUpdate \/ DepthStep \/ ColumnEnd \/ FadeStep
    \/ FadeEnd \/ GameRender

SpecGame == InitGame /\ [][NextGame]_vars

\* ------------------------------------- constructing the sky colour model
ConfigHeights == {250, 500, 750}
QueryHeights == {200, 250, 400, 500, 800}

InitSky ==
  /\ pos = <<0, 0>>
  /\ angle = 0
  /\ height = 0
  /\ pitch = 0
  /\ scale_height = <<1, 1>>
  /\ fading_size = 1
  /\ heightmap \in {m \in HeightMaps : \A x \in DOMAIN m : \A y \in DOMAIN m[x] : m[x][y] = 0}
  /\ colormap \in {m \in ColorMaps : m[0][0] = Palette[1]}
  /\ bgcfg = NoConfig
  /\ pc = "new"
  /\ Idle

\* BackgroundConfig(...) and RendererSettings(...) with any arguments
Construct ==
  /\ pc = "new"
  /\ \E lo \in ConfigHeights, hi \in ConfigHeights,
        c1 \in {color_near_terrain, high_color},
        c2 \in {color_near_terrain, high_color} :
       bgcfg' = BackgroundConfig(lo, hi, c1, c2)
  /\ pc' = "built"
  /\ UNCHANGED <<player, scale_height, fading_size, heightmap, colormap,
                 locals, logs, snapshot, frame, display, sky_color, loader>>

\* RendererSettings.get_background_color(height)
GetBackgroundColor ==
  /\ pc = "built"
  /\ \E h \in QueryHeights :
       /\ height' = h
       /\ sky_color' = get_background_color(bgcfg, h)
  /\ UNCHANGED <<pos, angle, pitch, settings, locals, logs, snapshot, frame,
                 display, loader, pc>>

NextSky == Construct \/ GetBackgroundColor

SpecSky == InitSky /\ [][NextSky]_vars

\* ----------------------------------------------------- load_map (main.py)
MaxImage == 3
ImageSizes == (1 .. MaxImage) \X (1 .. MaxImage)

\* SizesNotMatchException(...): __init__ runs super.__init__(*args) on the
\* type super itself, not on super(); that call raises TypeError
RaiseSizesNotMatch == "TypeError"

\* load_map(color_map_path, height_map_path): whether each path exists and
\* the (width, height) of each image
load_map(color_exists, height_exists, color_size, height_size) ==
  IF ~color_exists THEN "FileNotFoundError"
  ELSE IF ~height_exists THEN "FileNotFoundError"
  ELSE IF color_size[1] # height_size[1] \/ color_size[2] # height_size[2]
       THEN RaiseSizesNotMatch
  ELSE "Map"

InitLoad ==
  /\ pos = <<0, 0>>
  /\ angle = 0
  /\ height = 0
  /\ pitch = 0
  /\ scale_height = <<1, 1>>
  /\ fading_size = 1
  /\ heightmap \in {m \in HeightMaps : \A x \in DOMAIN m : \A y \in DOMAIN m[x] : m[x][y] = 0}
  /\ colormap \in {m \in ColorMaps : m[0][0] = Palette[1]}
  /\ bgcfg = NoConfig
  /\ pc = "load"
  /\ Idle

LoadMap ==
  /\ pc = "load"
  /\ \E ce \in BOOLEAN, he \in BOOLEAN, cs \in ImageSizes, hs \in ImageSizes :
       /\ load_in' = <<ce, he, cs, hs>>
       /\ load_out' = load_map(ce, he, cs, hs)
  /\ pc' = "loaded"
  /\ UNCHANGED <<player, settings, locals, logs, snapshot, frame, display,
                 sky_color>>

NextLoad == LoadMap

SpecLoad == InitLoad /\ [][NextLoad]_vars

\* ------------------------------------------------------------ the claims
Painted(c) == \E p \in paints : p.col = c
Contacted(c) == \E r \in reads : r.col = c
FadeRows(c) == {f.row : f \in {g \in fades : g.col = c}}
LastPaintDepth(c) ==
  CHOOSE d \in {p.depth : p \in {q \in paints : q.col = c}} :
    \A p \in paints : p.col = c => p.depth <= d
\* the lowest row of the last bar painted in column c
LastBarBottom(c) ==
  CHOOSE r \in Rows :
    /\ [col |-> c, row |-> r, depth |-> LastPaintDepth(c)] \in paints
    /\ \A p \in paints : p.col = c /\ p.depth = LastPaintDepth(c) => p.row <= r
SkyStored == ToInt(background_color)

\* C1: during one raycast call every write to the frame buffer, by the bars
\* of the depth loop and by the horizon fading, targets a column in
\* [0, screen_width) and a row in [0, screen_height).
C1_WritesInBounds ==
  /\ \A p \in paints : p.col \in Cols /\ p.row \in Rows
  /\ \A f \in fades : f.col \in Cols /\ f.row \in Rows

\* C2 as stated: at delta = 0 the faded pixel equals the colour that was
\* there before fading.
C2_ZeroDeltaKeepsTerrain ==
  \A f \in fades : f.delta = 0 => f.result = f.current

\* C2 as amended: every faded pixel is, per channel, the integer part of
\* sky + (current - sky) * delta / fading_size: the sky colour at delta = 0,
\* moving towards the colour that was there as delta grows.
C2_FadeBlendsFromSky ==
  \A f \in fades : \A i \in 1 .. 3 :
    LET exact == f.delta * f.current[i] * background_color.den
                   + (fading_size - f.delta) * background_color.num[i]
        unit == fading_size * background_color.den
    IN  /\ f.result[i] * unit <= exact
        /\ exact < (f.result[i] + 1) * unit
        /\ f.delta = 0 => f.result[i] = SkyStored[i]

C2_Witness ==
  \E f \in fades, g \in fades :
    /\ f.col = g.col
    /\ f.delta = 0 /\ f.current # SkyStored /\ f.result = SkyStored
    /\ g.delta > 0 /\ g.row \in Rows /\ g.current # SkyStored
    /\ g.result # g.current /\ g.result # SkyStored

\* C3: within one raycast call y_buffer starts at screen_height in every
\* column and no step of the call raises any column's value.
C3_OcclusionMonotone ==
  [][/\ (pc \notin {"depth", "fade"} /\ pc' = "depth")
          => \A c \in Cols : y_buffer'[c] = ScreenH
     /\ pc \in {"depth", "fade"}
          => \A c \in Cols : y_buffer'[c] <= y_buffer[c]]_vars

C3_Witness ==
  \E c \in Cols :
    /\ Cardinality({p.depth : p \in {q \in paints : q.col = c}}) >= 2
    /\ y_buffer[c] < ScreenH - 1

\* C4: every map read is at x = floor(pos.x + depth * cos_a) and
\* y = floor(pos.y + depth * sin_a) mod map_height, both inside the map.
C4_SampleIsFloor ==
  \A r \in reads :
    /\ r.x = r.fx \div Q
    /\ r.y = (r.fy \div Q) % MapH
    /\ r.x \in 0 .. MapW - 1
    /\ r.y \in 0 .. MapH - 1

\* C5: a constructed sky colour model has max_height > min_height, and
\* get_background_color never divides by a zero range.
C5_RangeGuarded ==
  /\ bgcfg.built => bgcfg.max_height > bgcfg.min_height
  /\ ~sky_color.nan

\* C6: load_map fails with FileNotFoundError if a path is missing, with
\* SizesNotMatchException if the images differ in width or height, and
\* returns a Map otherwise.
C6_LoadMapOutcome ==
  pc = "loaded" =>
    load_out =
      IF ~load_in[1] \/ ~load_in[2] THEN "FileNotFoundError"
      ELSE IF load_in[3] # load_in[4] THEN "SizesNotMatchException"
      ELSE "Map"

\* C7: from the start to the end of Renderer.update the player's pos, angle,
\* height and pitch are the values they had when the update began.
C7_CameraConstantInFrame ==
  pc \in {"depth", "fade", "done"} => <<pos, angle, height, pitch>> = snapshot

C7_Witness ==
  /\ pc = "done"
  /\ frame >= 1
  /\ display # screen_data
  /\ \E c \in Cols : Painted(c)

\* C8: once a column has had its first contact, 0 <= y_buffer[column] <=
\* screen_height.
C8_FirstContactInRange ==
  \A c \in Cols : Contacted(c) => y_buffer[c] \in 0 .. ScreenH

\* C9 as stated: when raycast returns, a painted column was faded at the
\* rows y_buffer[column] - 1 + delta that are >= 0, and an unpainted column
\* was not faded and is entirely sky-coloured.
C9_AnchorIsFinalOcclusion ==
  pc = "done" =>
    \A c \in Cols :
      IF Painted(c)
      THEN FadeRows(c) =
             {r \in {y_buffer[c] - 1 + d : d \in 0 .. fading_size - 1} : r >= 0}
      ELSE /\ FadeRows(c) = {}
           /\ \A r \in Rows : screen_data[c][r] = SkyStored

\* C9 as amended: a painted column is faded at the rows anchor + delta for
\* delta in [0, fading_size), where anchor is the lowest row of the last bar
\* painted (the occlusion value before that bar, minus 1; never below the
\* final occlusion value); an unpainted column is not faded and is entirely
\* sky-coloured.
C9_AnchorIsLastBarBottom ==
  pc = "done" =>
    \A c \in Cols :
      IF Painted(c)
      THEN /\ FadeRows(c) =
                {LastBarBottom(c) + d : d \in 0 .. fading_size - 1}
           /\ LastBarBottom(c) >= y_buffer[c]
      ELSE /\ FadeRows(c) = {}
           /\ \A r \in Rows : screen_data[c][r] = SkyStored

C9_Witness ==
  /\ pc = "done"
  /\ fading_size > 1
  /\ \E c \in Cols : Painted(c) /\ LastBarBottom(c) > y_buffer[c]
  /\ \E c \in Cols : ~Painted(c) /\ Contacted(c)

\* C10: when Renderer.update reads it the player's height is within
\* [minimum_height, maximum_height], and the sky colour it computes lies
\* between min_color and max_color on every channel.
C10_HeightAndSkyInRange ==
  /\ pc \in {"renderer", "depth", "fade", "done"}
       => height \in minimum_height .. maximum_height
  /\ pc \in {"depth", "fade", "done"}
       => \A i \in 1 .. 3 :
            /\ sky_color.den > 0
            /\ Min(bgcfg.min_color[i], bgcfg.max_color[i]) * sky_color.den
                 <= sky_color.num[i]
            /\ sky_color.num[i]
                 <= Max(bgcfg.min_color[i], bgcfg.max_color[i]) * sky_color.den

C10_Witness ==
  /\ pc = "done"
  /\ height = minimum_height
  /\ sky_color.num = [i \in 1 .. 3 |-> bgcfg.min_color[i] * sky_color.den]

====
